---------------------------- MODULE Spec2Model ----------------------------
(***************************************************************************)
(* A model of the filedesc crate (src/src/lib.rs, src/src/unix.rs): the    *)
(* FileDesc wrapper around a raw file descriptor, the process-wide flag    *)
(* TRY_DUPFD_CLOEXEC and the duplication protocol of duplicate_raw_fd,     *)
(* run by several threads against one descriptor table.                    *)
(*                                                                         *)
(* The kernel side (fcntl, close, exec) is modelled by what POSIX/Linux    *)
(* do on a descriptor table: F_DUPFD returns the lowest free descriptor    *)
(* with FD_CLOEXEC clear, F_DUPFD_CLOEXEC the same with FD_CLOEXEC set     *)
(* (EINVAL on a platform without it), F_SETFD replaces the descriptor      *)
(* flags, close frees the descriptor number, exec keeps exactly the        *)
(* descriptors whose FD_CLOEXEC is clear.                                  *)
(***************************************************************************)
EXTENDS Integers, FiniteSets, TLC

\* ------------------------------------------------------------------ bounds

\* Size of the descriptor table: descriptors are 0 .. NFds-1; a duplication
\* that finds no free number fails with EMFILE.
NFds == 4

\* Number of threads that can be inside duplicate_raw_fd at the same time.
NThreads == 2

\* Number of FileDesc values created over one run.
NHandles == 2

Fds == 0 .. (NFds - 1)
Threads == 1 .. NThreads
Handles == 1 .. NHandles

\* ------------------------------------------------- constants of the program

\* libc::FD_CLOEXEC, the only descriptor flag.
FD_CLOEXEC == 1

\* The value AtomicBool::new gives TRY_DUPFD_CLOEXEC.
TRY_DUPFD_CLOEXEC_INIT == FALSE

\* The descriptors a fresh process has open (none close-on-exec, none owned).
InitOpen == {0, 1}

\* The number just below a range of ids stands for "none of them": -1 for the
\* descriptors (the invalid descriptor of libc), 0 for FileDesc values and threads.
Below(S) == (CHOOSE x \in S : \A y \in S : x <= y) - 1
NoFd == Below(Fds)
NoHandle == Below(Handles)
NoThread == Below(Threads)

VARIABLES
    hasAtomic,          \* the platform implements F_DUPFD_CLOEXEC
    TRY_DUPFD_CLOEXEC,  \* the static AtomicBool
    open,               \* the open descriptors of the process
    fdflags,            \* descriptor flags (F_GETFD), 0 for a closed descriptor
    hstate,             \* FileDesc values: "none", "live", "released", "dropped"
    hfd,                \* FileDesc.fd
    closes,             \* close calls issued on behalf of each FileDesc
    pc,                 \* position of each thread inside duplicate_raw_fd
    tsrc,               \* the fd argument of the thread's call
    ttry,               \* what the thread's load of TRY_DUPFD_CLOEXEC returned
    tnew,               \* the FileDesc the thread's call has created so far
    tborrow,            \* the FileDesc a duplicate(&self) call borrows
    natomic,            \* F_DUPFD_CLOEXEC calls issued by the thread's call
    nplain,             \* F_DUPFD calls issued by the thread's call
    issued,             \* the duplication commands issued so far in the process
    execed,             \* the process image has been replaced
    inherited,          \* the descriptors the new image got
    last                \* the operation that acted last, and what it returned

vars == << hasAtomic, TRY_DUPFD_CLOEXEC, open, fdflags, hstate, hfd, closes, pc,
           tsrc, ttry, tnew, tborrow, natomic, nplain, issued, execed, inherited,
           last >>

kernel == << open, fdflags >>
handles == << hstate, hfd, closes >>
locals == << pc, tsrc, ttry, tnew, tborrow, natomic, nplain >>

\* What an operation leaves in `last`: the operation, the thread inside
\* duplicate_raw_fd (if any), the FileDesc and descriptor it concerns, the source
\* descriptor of a duplication, the io::Result it returned ("Ok" or the errno;
\* "-" while a call is still running), the boolean it took or returned, and the
\* return value of the last system call it made.
Op(op, t, h, fd, src, res, val, sys) ==
    [op |-> op, t |-> t, h |-> h, fd |-> fd, src |-> src, res |-> res,
     val |-> val, sys |-> sys, atomic |-> 0, plain |-> 0]

\* The same for a step of duplicate_raw_fd, with the numbers of F_DUPFD_CLOEXEC
\* and F_DUPFD calls the call has issued so far.
DupOp(t, h, fd, src, res, sys, na, np) ==
    [op |-> "duplicate_raw_fd", t |-> t, h |-> h, fd |-> fd, src |-> src,
     res |-> res, val |-> FALSE, sys |-> sys, atomic |-> na, plain |-> np]

\* ------------------------------------------------------------- the kernel

\* A system call's return: the value, and errno when the value is -1.
Ret(v) == [ret |-> v, errno |-> "none"]
Fail(e) == [ret |-> -1, errno |-> e]

\* The number F_DUPFD with argument 0 hands out: the lowest one not open.
LowestFree(used) == CHOOSE n \in Fds \ used : \A m \in Fds \ used : n <= m

\* fcntl(fd, F_DUPFD, 0).
fcntl_F_DUPFD(fd) ==
    IF fd \notin open THEN Fail("EBADF")
    ELSE IF Fds \ open = {} THEN Fail("EMFILE")
    ELSE Ret(LowestFree(open))

\* fcntl(fd, F_DUPFD_CLOEXEC, 0): the descriptor is looked up first, then the
\* command is recognised or not, then a number is allocated.
fcntl_F_DUPFD_CLOEXEC(fd) ==
    IF fd \notin open THEN Fail("EBADF")
    ELSE IF ~hasAtomic THEN Fail("EINVAL")
    ELSE IF Fds \ open = {} THEN Fail("EMFILE")
    ELSE Ret(LowestFree(open))

\* fcntl(fd, F_SETFD, arg); `denied` is the kernel refusing the call on an open
\* descriptor (a seccomp or security-module policy).
fcntl_F_SETFD(fd, arg, denied) ==
    IF fd \notin open THEN Fail("EBADF")
    ELSE IF denied THEN Fail("EPERM")
    ELSE Ret(0)

\* fcntl(fd, F_GETFD, 0).
fcntl_F_GETFD(fd) ==
    IF fd \notin open THEN Fail("EBADF") ELSE Ret(fdflags[fd])

\* (mutant) the flag is one per process: every open descriptor gets it.
FlagsAfterSetfd_global(flags, fd, arg) ==
    [d \in Fds |-> IF d \in open THEN arg ELSE flags[d]]

\* The descriptor flags after a successful F_SETFD: those of fd are replaced.
FlagsAfterSetfd(flags, fd, arg) == [flags EXCEPT ![fd] = arg]

\* The descriptor table after a successful duplication onto `new`.
OpenAfterDup(new) == open \cup {new}
FlagsAfterDup(new, flags) == [fdflags EXCEPT ![new] = flags]

\* The descriptor table after close(fd): the number is free again, whatever
\* close returns (Linux frees it before any error is reported).
OpenAfterClose(fd) == open \ {fd}
FlagsAfterClose(fd) == IF fd \in Fds THEN [fdflags EXCEPT ![fd] = 0] ELSE fdflags

\* close(fd): EBADF for a number that is not open; otherwise 0, or -1 when
\* `failed` (EIO, EINTR).
close(fd, failed) ==
    IF fd \notin open THEN Fail("EBADF")
    ELSE IF failed THEN Fail("EIO")
    ELSE Ret(0)

\* ret & FD_CLOEXEC, for the flag words of this model (0 .. 2*FD_CLOEXEC-1).
AndFdCloexec(ret) == (ret \div FD_CLOEXEC) % 2 * FD_CLOEXEC

\* ----------------------------------------------------- the crate's helpers

\* (mutant) only values below -1 are taken for errors.
check_ret_below(r) ==
    IF r.ret < -1 THEN [ok |-> FALSE, val |-> -1, err |-> r.errno]
    ELSE [ok |-> TRUE, val |-> r.ret, err |-> "none"]

\* check_ret: -1 is the error of errno, anything else is Ok(ret).
check_ret(r) ==
    IF r.ret = -1 THEN [ok |-> FALSE, val |-> -1, err |-> r.errno]
    ELSE [ok |-> TRUE, val |-> r.ret, err |-> "none"]

\* (mutant) the two arms swapped.
CloexecArg_swapped(close_on_exec) == IF close_on_exec THEN 0 ELSE FD_CLOEXEC

\* The argument set_close_on_exec passes to F_SETFD.
CloexecArg(close_on_exec) == IF close_on_exec THEN FD_CLOEXEC ELSE 0

\* (mutant) `== 0` for `!= 0`.
CloexecOf_inverted(ret) == AndFdCloexec(ret) = 0

\* The value get_close_on_exec makes of F_GETFD's return.
CloexecOf(ret) == AndFdCloexec(ret) # 0

\* (mutant) the guard of the first arm matches every error.
IsNotSupported_anyError(r) == ~r.ok

\* (mutant) the guard of the first arm never matches.
IsNotSupported_never(r) == FALSE

\* The first arm of the match in duplicate_raw_fd: the error is EINVAL.
IsNotSupported(r) == ~r.ok /\ r.err = "EINVAL"

\* (mutant) the condition inverted.
TryAtomic_inverted(loaded) == ~loaded

\* `if TRY_DUPFD_CLOEXEC.load(Relaxed)`: the atomic attempt is made exactly
\* when the load returned true.
TryAtomic(loaded) == loaded

\* (mutant) the arm stores true.
StoredOnEinval_true == TRUE

\* What the EINVAL arm stores into TRY_DUPFD_CLOEXEC.
StoredOnEinval == FALSE

\* (mutant) the argument is wrapped instead of the number fcntl returned.
WrappedFd_argument(src, new) == src

\* `Self::from_raw_fd(x)` / `let fd = Self::from_raw_fd(fd)` inside
\* duplicate_raw_fd: of the argument and the number fcntl returned, the FileDesc
\* wraps the latter (the `fd` that shadows the argument).
WrappedFd(src, new) == new

\* (mutant) Drop without the guard: close is called whatever the descriptor.
DropCloses_always(fd) == TRUE

\* (mutant) descriptor 0 is taken for invalid.
DropCloses_positive(fd) == fd > 0

\* Drop's guard: close is called for descriptors >= 0 only.
DropCloses(fd) == fd >= 0

\* The next FileDesc of the run.
Unused == {h \in Handles : hstate[h] = "none"}
NewHandle == CHOOSE h \in Unused : \A g \in Unused : h <= g
InFlight == {t \in Threads : pc[t] # "idle"}

\* A FileDesc the program holds: live, and not the local of a running call.
Held(h) ==
    /\ hstate[h] = "live"
    /\ \A t \in Threads : ~(pc[t] = "setfd" /\ tnew[t] = h)
Borrowed(h) == \E t \in InFlight : tborrow[t] = h
Owners(fd) == {h \in Handles : hstate[h] = "live" /\ hfd[h] = fd}

\* ------------------------------------------------------------ initial state

InitWith(flag) ==
    /\ hasAtomic \in BOOLEAN
    /\ TRY_DUPFD_CLOEXEC = flag
    /\ open = InitOpen
    /\ fdflags = [fd \in Fds |-> 0]
    /\ hstate = [h \in Handles |-> "none"]
    /\ hfd = [h \in Handles |-> NoFd]
    /\ closes = [h \in Handles |-> 0]
    /\ pc = [t \in Threads |-> "idle"]
    /\ tsrc = [t \in Threads |-> NoFd]
    /\ ttry = [t \in Threads |-> FALSE]
    /\ tnew = [t \in Threads |-> NoHandle]
    /\ tborrow = [t \in Threads |-> NoHandle]
    /\ natomic = [t \in Threads |-> 0]
    /\ nplain = [t \in Threads |-> 0]
    /\ issued = {}
    /\ execed = FALSE
    /\ inherited = {}
    /\ last = Op("start", NoThread, NoHandle, NoFd, NoFd, "-", FALSE, 0)

\* A fresh process: the static holds the value its initialiser gives it.
Init == InitWith(TRY_DUPFD_CLOEXEC_INIT)

\* ------------------------------------------------------------ FileDesc::*

\* (mutant) the wrap also sets close-on-exec on the descriptor.
from_raw_fd_cloexec(fd) ==
    /\ ~execed
    /\ Cardinality(Unused) > Cardinality(InFlight)
    /\ \/ fd \in open /\ Owners(fd) = {}
       \/ fd = NoFd
    /\ hstate' = [hstate EXCEPT ![NewHandle] = "live"]
    /\ hfd' = [hfd EXCEPT ![NewHandle] = fd]
    /\ fdflags' = IF fd \in open THEN FlagsAfterSetfd(fdflags, fd, FD_CLOEXEC) ELSE fdflags
    /\ last' = Op("from_raw_fd", NoThread, NewHandle, fd, NoFd, "Ok", FALSE, 0)
    /\ UNCHANGED << hasAtomic, TRY_DUPFD_CLOEXEC, open, closes, locals, issued,
                    execed, inherited >>

\* from_raw_fd(fd) / new(fd): wrap, and nothing else.  The caller's side of the
\* safety contract is the guard: fd is open and nobody else is going to close
\* it (no live FileDesc has it); the invalid descriptor -1 can be wrapped too.
from_raw_fd(fd) ==
    /\ ~execed
    /\ Cardinality(Unused) > Cardinality(InFlight)
    /\ \/ fd \in open /\ Owners(fd) = {}
       \/ fd = NoFd
    /\ hstate' = [hstate EXCEPT ![NewHandle] = "live"]
    /\ hfd' = [hfd EXCEPT ![NewHandle] = fd]
    /\ last' = Op("from_raw_fd", NoThread, NewHandle, fd, NoFd, "Ok", FALSE, 0)
    /\ UNCHANGED << hasAtomic, TRY_DUPFD_CLOEXEC, kernel, closes, locals, issued,
                    execed, inherited >>

\* as_raw_fd(&self).
as_raw_fd(h) ==
    /\ ~execed
    /\ Held(h)
    /\ last' = Op("as_raw_fd", NoThread, h, hfd[h], NoFd, "Ok", FALSE, 0)
    /\ UNCHANGED << hasAtomic, TRY_DUPFD_CLOEXEC, kernel, handles, locals, issued,
                    execed, inherited >>

\* (mutant) a destructor that does not close.
DropEffect_leak(h, failed) ==
    /\ hstate' = [hstate EXCEPT ![h] = "dropped"]
    /\ hfd' = [hfd EXCEPT ![h] = NoFd]
    /\ UNCHANGED << closes, open, fdflags >>

\* Drop::drop(&mut self) as a state change on the descriptor table and the
\* FileDesc values; the value of close is thrown away.
DropEffect(h, failed) ==
    /\ hstate' = [hstate EXCEPT ![h] = "dropped"]
    /\ IF DropCloses(hfd[h])
       THEN /\ closes' = [closes EXCEPT ![h] = @ + 1]
            /\ open' = OpenAfterClose(hfd[h])
            /\ fdflags' = FlagsAfterClose(hfd[h])
       ELSE UNCHANGED << closes, open, fdflags >>
    /\ hfd' = [hfd EXCEPT ![h] = NoFd]

\* (mutant) mem::forget left out: self is dropped at the end of into_raw_fd.
ForgetsSelf_omitted == FALSE

\* `std::mem::forget(self)` in into_raw_fd.
ForgetsSelf == TRUE

\* into_raw_fd(self): self is moved in and forgotten, so Drop never runs for it;
\* a self that is not forgotten is dropped when the function returns.
\* (A FileDesc that no longer exists has no fd field: hfd goes back to -1.)
into_raw_fd(h) ==
    /\ ~execed
    /\ Held(h) /\ ~Borrowed(h)
    /\ IF ForgetsSelf
       THEN /\ hstate' = [hstate EXCEPT ![h] = "released"]
            /\ hfd' = [hfd EXCEPT ![h] = NoFd]
            /\ UNCHANGED << kernel, closes >>
       ELSE \E failed \in BOOLEAN : DropEffect(h, failed)
    /\ last' = Op("into_raw_fd", NoThread, h, hfd[h], NoFd, "Ok", FALSE, 0)
    /\ UNCHANGED << hasAtomic, TRY_DUPFD_CLOEXEC, locals, issued, execed, inherited >>

\* A FileDesc the program holds goes out of scope.
drop(h) ==
    /\ ~execed
    /\ Held(h) /\ ~Borrowed(h)
    /\ \E failed \in BOOLEAN :
          /\ DropEffect(h, failed)
          /\ last' = Op("drop", NoThread, h, hfd[h], NoFd, "Ok", FALSE,
                        IF DropCloses(hfd[h]) THEN close(hfd[h], failed).ret ELSE 0)
    /\ UNCHANGED << hasAtomic, TRY_DUPFD_CLOEXEC, locals, issued, execed, inherited >>

\* set_close_on_exec(&self, close_on_exec).
set_close_on_exec(h, close_on_exec) ==
    /\ ~execed
    /\ Held(h)
    /\ \E denied \in BOOLEAN :
          LET r == check_ret(fcntl_F_SETFD(hfd[h], CloexecArg(close_on_exec), denied))
          IN  /\ fdflags' = IF r.ok
                            THEN FlagsAfterSetfd(fdflags, hfd[h], CloexecArg(close_on_exec))
                            ELSE fdflags
              /\ last' = Op("set_close_on_exec", NoThread, h, hfd[h], NoFd,
                            IF r.ok THEN "Ok" ELSE r.err, close_on_exec, r.val)
    /\ UNCHANGED << hasAtomic, TRY_DUPFD_CLOEXEC, open, handles, locals, issued,
                    execed, inherited >>

\* get_close_on_exec(&self).
get_close_on_exec(h) ==
    /\ ~execed
    /\ Held(h)
    /\ LET r == check_ret(fcntl_F_GETFD(hfd[h]))
       IN  last' = Op("get_close_on_exec", NoThread, h, hfd[h], NoFd,
                      IF r.ok THEN "Ok" ELSE r.err,
                      IF r.ok THEN CloexecOf(r.val) ELSE FALSE, r.val)
    /\ UNCHANGED << hasAtomic, TRY_DUPFD_CLOEXEC, kernel, handles, locals, issued,
                    execed, inherited >>

\* ------------------------------------------------- the duplication protocol

\* The thread's call is over: its locals go out of scope.
Return(t) ==
    /\ pc' = [pc EXCEPT ![t] = "idle"]
    /\ tsrc' = [tsrc EXCEPT ![t] = NoFd]
    /\ ttry' = [ttry EXCEPT ![t] = FALSE]
    /\ tnew' = [tnew EXCEPT ![t] = NoHandle]
    /\ tborrow' = [tborrow EXCEPT ![t] = NoHandle]
    /\ natomic' = [natomic EXCEPT ![t] = 0]
    /\ nplain' = [nplain EXCEPT ![t] = 0]

\* Entry of duplicate_raw_fd(fd) on thread t, up to and including the load of
\* TRY_DUPFD_CLOEXEC, which decides where the call goes next.
Enter(t, fd, borrowed) ==
    /\ ~execed
    /\ pc[t] = "idle"
    /\ Cardinality(Unused) > Cardinality(InFlight)
    /\ tsrc' = [tsrc EXCEPT ![t] = fd]
    /\ ttry' = [ttry EXCEPT ![t] = TRY_DUPFD_CLOEXEC]
    /\ pc' = [pc EXCEPT ![t] = IF TryAtomic(TRY_DUPFD_CLOEXEC) THEN "atomic" ELSE "plain"]
    /\ tnew' = [tnew EXCEPT ![t] = NoHandle]
    /\ tborrow' = [tborrow EXCEPT ![t] = borrowed]
    /\ natomic' = [natomic EXCEPT ![t] = 0]
    /\ nplain' = [nplain EXCEPT ![t] = 0]
    /\ last' = Op("enter", t, borrowed, NoFd, fd, "-", FALSE, 0)
    /\ UNCHANGED << hasAtomic, TRY_DUPFD_CLOEXEC, kernel, handles, issued, execed,
                    inherited >>

\* unsafe duplicate_raw_fd(fd), for any descriptor number.
duplicate_raw_fd(t, fd) == Enter(t, fd, NoHandle)

\* duplicate(&self) = duplicate_raw_fd(self.as_raw_fd()); self stays borrowed
\* until the call returns.  duplicate_from(&other) is the same call.
duplicate(t, h) == Held(h) /\ Enter(t, hfd[h], h)

\* The `if` block: fcntl(fd, F_DUPFD_CLOEXEC, 0) and the three arms of the match.
AtomicAttempt(t) ==
    LET r == check_ret(fcntl_F_DUPFD_CLOEXEC(tsrc[t]))
        h == NewHandle
        na == natomic[t] + 1
    IN  /\ issued' = issued \cup {"F_DUPFD_CLOEXEC"}
        /\ UNCHANGED << hasAtomic, closes, execed, inherited >>
        /\ IF IsNotSupported(r)
           THEN /\ TRY_DUPFD_CLOEXEC' = StoredOnEinval
                /\ pc' = [pc EXCEPT ![t] = "plain"]
                /\ natomic' = [natomic EXCEPT ![t] = na]
                /\ last' = DupOp(t, NoHandle, NoFd, tsrc[t], "-", r.val, na, nplain[t])
                /\ UNCHANGED << kernel, hstate, hfd, tsrc, ttry, tnew, tborrow, nplain >>
           ELSE IF r.ok
           THEN /\ open' = OpenAfterDup(r.val)
                /\ fdflags' = FlagsAfterDup(r.val, FD_CLOEXEC)
                /\ hstate' = [hstate EXCEPT ![h] = "live"]
                /\ hfd' = [hfd EXCEPT ![h] = WrappedFd(tsrc[t], r.val)]
                /\ Return(t)
                /\ last' = DupOp(t, h, WrappedFd(tsrc[t], r.val), tsrc[t], "Ok", r.val,
                                 na, nplain[t])
                /\ UNCHANGED TRY_DUPFD_CLOEXEC
           ELSE /\ Return(t)
                /\ last' = DupOp(t, NoHandle, NoFd, tsrc[t], r.err, r.val, na, nplain[t])
                /\ UNCHANGED << TRY_DUPFD_CLOEXEC, kernel, hstate, hfd >>

\* `let fd = check_ret(fcntl(fd, F_DUPFD, 0))?; let fd = Self::from_raw_fd(fd);`
PlainDup(t) ==
    LET r == check_ret(fcntl_F_DUPFD(tsrc[t]))
        h == NewHandle
        np == nplain[t] + 1
    IN  /\ issued' = issued \cup {"F_DUPFD"}
        /\ UNCHANGED << hasAtomic, TRY_DUPFD_CLOEXEC, closes, execed, inherited >>
        /\ IF r.ok
           THEN /\ open' = OpenAfterDup(r.val)
                /\ fdflags' = FlagsAfterDup(r.val, 0)
                /\ hstate' = [hstate EXCEPT ![h] = "live"]
                /\ hfd' = [hfd EXCEPT ![h] = WrappedFd(tsrc[t], r.val)]
                /\ tnew' = [tnew EXCEPT ![t] = h]
                /\ pc' = [pc EXCEPT ![t] = "setfd"]
                /\ nplain' = [nplain EXCEPT ![t] = np]
                /\ last' = DupOp(t, h, WrappedFd(tsrc[t], r.val), tsrc[t], "-", r.val,
                                 natomic[t], np)
                /\ UNCHANGED << tsrc, ttry, tborrow, natomic >>
           ELSE /\ Return(t)
                /\ last' = DupOp(t, NoHandle, NoFd, tsrc[t], r.err, r.val, natomic[t], np)
                /\ UNCHANGED << kernel, hstate, hfd >>

\* `fd.set_close_on_exec(true)?; Ok(fd)`: on the error the local FileDesc is
\* dropped on the way out.
SetFlag(t) ==
    LET h == tnew[t]
    IN  /\ UNCHANGED << hasAtomic, TRY_DUPFD_CLOEXEC, issued, execed, inherited >>
        /\ Return(t)
        /\ \E denied \in BOOLEAN :
              LET r == check_ret(fcntl_F_SETFD(hfd[h], CloexecArg(TRUE), denied))
              IN  IF r.ok
                  THEN /\ fdflags' = FlagsAfterSetfd(fdflags, hfd[h], CloexecArg(TRUE))
                       /\ last' = DupOp(t, h, hfd[h], tsrc[t], "Ok", r.val,
                                        natomic[t], nplain[t])
                       /\ UNCHANGED << open, handles >>
                  ELSE /\ \E failed \in BOOLEAN : DropEffect(h, failed)
                       /\ last' = DupOp(t, NoHandle, NoFd, tsrc[t], r.err, r.val,
                                        natomic[t], nplain[t])

\* One system call's worth of progress of thread t inside duplicate_raw_fd.
DupStep(t) ==
    /\ ~execed
    /\ pc[t] # "idle"
    /\ CASE pc[t] = "atomic" -> AtomicAttempt(t)
         [] pc[t] = "plain" -> PlainDup(t)
         [] pc[t] = "setfd" -> SetFlag(t)

\* ------------------------------------------------------------- environment

\* Some thread replaces the process image (exec): the new image gets exactly
\* the descriptors whose FD_CLOEXEC is clear, and nothing of this program runs
\* any more.
Exec ==
    /\ ~execed
    /\ execed' = TRUE
    /\ inherited' = {fd \in open : ~CloexecOf(fdflags[fd])}
    /\ last' = Op("exec", NoThread, NoHandle, NoFd, NoFd, "-", FALSE, 0)
    /\ UNCHANGED << hasAtomic, TRY_DUPFD_CLOEXEC, kernel, handles, locals, issued >>

Next ==
    \/ \E fd \in Fds \cup {NoFd} : from_raw_fd(fd)
    \/ \E h \in Handles : as_raw_fd(h)
    \/ \E h \in Handles : into_raw_fd(h)
    \/ \E h \in Handles : drop(h)
    \/ \E h \in Handles, b \in BOOLEAN : set_close_on_exec(h, b)
    \/ \E h \in Handles : get_close_on_exec(h)
    \/ \E t \in Threads, fd \in Fds : duplicate_raw_fd(t, fd)
    \/ \E t \in Threads, h \in Handles : duplicate(t, h)
    \/ \E t \in Threads : DupStep(t)
    \/ Exec

\* The process as built.
Spec == Init /\ [][Next]_vars

\* The same program started with either value in TRY_DUPFD_CLOEXEC: the flag is
\* the hidden input of duplicate_raw_fd, and this specification runs the
\* protocol for both of its values.
InitAnyFlag == \E flag \in BOOLEAN : InitWith(flag)
SpecAnyFlag == InitAnyFlag /\ [][Next]_vars

\* ------------------------------------------------------------------ claims

\* What get_close_on_exec would return for descriptor fd in this state.
ReadsCloexec(fd) ==
    LET r == check_ret(fcntl_F_GETFD(fd)) IN r.ok /\ CloexecOf(r.val)

\* A call of duplicate_raw_fd has just returned.
DupReturned == last.op = "duplicate_raw_fd" /\ last.res # "-"
DupReturnedOk == last.op = "duplicate_raw_fd" /\ last.res = "Ok"

\* C1: a duplication that returns Ok returns a FileDesc whose descriptor is
\* not the source descriptor, is open, and reads close-on-exec = true right
\* after the call, whichever value the flag had and whichever path was taken.
C1_DuplicateIsNewAndCloexec ==
    DupReturnedOk =>
        /\ last.fd # last.src
        /\ last.fd \in open
        /\ ReadsCloexec(last.fd)
        /\ hstate[last.h] = "live" /\ hfd[last.h] = last.fd

\* C1 witness: a call that went through F_DUPFD_CLOEXEC alone has returned Ok.
C1_Witness ==
    /\ DupReturnedOk /\ last.atomic = 1 /\ last.plain = 0
    /\ ReadsCloexec(last.fd) /\ last.fd # last.src

\* C2: on a platform with F_DUPFD_CLOEXEC, no exec by another thread, at any
\* point of a duplication, hands the new image the descriptor that the
\* duplication has created.
C2_ExecNeverInheritsDuplicate ==
    (execed /\ hasAtomic) =>
        \A t \in Threads : pc[t] = "setfd" => hfd[tnew[t]] \notin inherited

\* C3: the flag starts as "assume supported": the first duplication of a
\* process issues F_DUPFD_CLOEXEC before it issues F_DUPFD, so F_DUPFD is never
\* the first duplication command of the process.
C3_FirstDuplicationTriesAtomic ==
    "F_DUPFD" \in issued => "F_DUPFD_CLOEXEC" \in issued

\* C4: once TRY_DUPFD_CLOEXEC is false it stays false, and a call that loaded
\* false issues no F_DUPFD_CLOEXEC: it goes to F_DUPFD, and returns Ok only
\* from the F_SETFD that follows it.
C4_FlagOneWay ==
    [][ /\ (~TRY_DUPFD_CLOEXEC => ~TRY_DUPFD_CLOEXEC')
        /\ \A t \in Threads :
              /\ (pc[t] = "idle" /\ pc'[t] # "idle" /\ ~TRY_DUPFD_CLOEXEC)
                    => (pc'[t] = "plain" /\ ~ttry'[t])
              /\ (pc[t] # "idle" /\ ~ttry[t] /\ last'.op = "duplicate_raw_fd"
                     /\ last'.t = t)
                    => /\ last'.atomic = 0
                       /\ pc[t] \in {"plain", "setfd"}
                       /\ last'.res = "Ok" => (pc[t] = "setfd" /\ last'.plain = 1)
      ]_vars

\* C4 witness: the flag has been cleared by an F_DUPFD_CLOEXEC that failed, and
\* a later call has returned Ok without issuing F_DUPFD_CLOEXEC.
C4_Witness ==
    /\ "F_DUPFD_CLOEXEC" \in issued /\ ~hasAtomic /\ ~TRY_DUPFD_CLOEXEC
    /\ DupReturnedOk /\ last.atomic = 0 /\ last.plain = 1

\* C5: no open descriptor has two live FileDesc values responsible for closing
\* it, and a live FileDesc of a valid descriptor number owns an open descriptor
\* (not a number that was closed and may be handed out again).
C5_SingleOwner ==
    /\ \A fd \in open : Cardinality(Owners(fd)) <= 1
    /\ \A h \in Handles : (hstate[h] = "live" /\ hfd[h] \in Fds) => hfd[h] \in open

\* C5 witness: the first FileDesc was a duplicate and was dropped, and the
\* duplication that has just returned got the descriptor number it had closed
\* (the lowest free one, with 0 and 1 open all along).
C5_Witness ==
    /\ DupReturnedOk /\ last.h = 2 /\ last.fd = 2
    /\ hstate[1] = "dropped" /\ closes[1] = 1
    /\ open = {0, 1, 2} /\ Owners(2) = {2}

\* C6: a FileDesc that is dropped without having been released issues exactly
\* one close for its descriptor, the descriptor is not open afterwards, and
\* drop reports nothing even when close fails; no FileDesc ever issues a second
\* close, and none issues a close before it is dropped.
C6_DropClosesOnce ==
    /\ \A h \in Handles :
          /\ closes[h] <= 1
          /\ hstate[h] \in {"none", "live", "released"} => closes[h] = 0
    /\ (last.op = "drop" /\ last.fd >= 0) =>
          /\ hstate[last.h] = "dropped"
          /\ closes[last.h] = 1
          /\ last.fd \notin open
          /\ last.res = "Ok"

\* C6 witness: a FileDesc of an open descriptor was dropped and close failed.
C6_Witness ==
    /\ last.op = "drop" /\ last.fd >= 0 /\ last.sys = -1
    /\ closes[last.h] = 1 /\ last.fd \notin open /\ last.res = "Ok"

\* C7: into_raw_fd returns the FileDesc's descriptor and leaves the descriptor
\* table as it was (the descriptor still open, its flags unchanged), and a
\* released FileDesc never issues a close.
C7_ReleaseDisarms ==
    /\ [](\A h \in Handles : hstate[h] = "released" => closes[h] = 0)
    /\ [][ last'.op = "into_raw_fd" =>
              /\ hstate'[last'.h] = "released"
              /\ last'.fd = hfd[last'.h]
              /\ open' = open /\ fdflags' = fdflags /\ closes' = closes
              /\ last'.fd \in Fds => last'.fd \in open'
          ]_vars

\* C7 witness: a FileDesc of a close-on-exec descriptor has been released, and
\* the descriptor is open and still close-on-exec.
C7_Witness ==
    /\ last.op = "into_raw_fd" /\ hstate[last.h] = "released" /\ closes[last.h] = 0
    /\ last.fd \in open /\ ReadsCloexec(last.fd)

\* The descriptor a running call of thread t has created and not yet returned.
OwnNew(t) == IF pc[t] = "setfd" THEN {hfd[tnew[t]]} ELSE {}

\* C8: no step of a duplication, successful or not, closes a descriptor that
\* was open, changes its flags or changes who owns it, except that a failing
\* call closes the descriptor it has itself created: the source in particular
\* stays open, keeps its close-on-exec flag and keeps its owner.
C8_DuplicateKeepsSource ==
    [][ last'.op \in {"enter", "duplicate_raw_fd"} =>
            \A fd \in open \ OwnNew(last'.t) :
                /\ fd \in open'
                /\ fdflags'[fd] = fdflags[fd]
                /\ {h \in Handles : hstate'[h] = "live" /\ hfd'[h] = fd} = Owners(fd)
      ]_vars

\* C8 witness: a duplication of a descriptor owned by a FileDesc has failed
\* after its F_DUPFD succeeded, and the source is open and has its owner.
C8_Witness ==
    /\ DupReturned /\ last.res = "EPERM" /\ last.plain = 1
    /\ last.src \in open /\ Owners(last.src) # {}

\* C9: under every interleaving of concurrent duplications, a call returns Ok
\* with close-on-exec set unless the kernel refused one of its system calls for
\* a reason of its own (source not open, descriptor table full, F_SETFD
\* denied): EINVAL is never returned.  The flag is never changed on a platform
\* that has F_DUPFD_CLOEXEC, and is false after every successful duplication on
\* a platform that lacks it.  No call issues F_DUPFD_CLOEXEC more than once.
C9_ConcurrentDuplicates ==
    [][ /\ hasAtomic => TRY_DUPFD_CLOEXEC' = TRY_DUPFD_CLOEXEC
        /\ \A t \in Threads : natomic'[t] <= 1
        /\ (last'.op = "duplicate_raw_fd" /\ last'.res # "-") =>
              /\ last'.atomic <= 1
              /\ last'.res \in {"Ok", "EBADF", "EMFILE", "EPERM"}
              /\ last'.res = "EBADF" => tsrc[last'.t] \notin open
              /\ last'.res = "EMFILE" => Fds \ open = {}
              /\ last'.res = "EPERM" => pc[last'.t] = "setfd"
              /\ last'.res = "Ok" =>
                    /\ last'.fd \in open' /\ CloexecOf(fdflags'[last'.fd])
                    /\ ~hasAtomic => ~TRY_DUPFD_CLOEXEC'
      ]_vars

\* C9 witness: on a platform without F_DUPFD_CLOEXEC two threads duplicate
\* different descriptors at the same time, both loaded true and both issued the
\* atomic attempt; one has returned Ok, the other is past its F_DUPFD.
C9_Witness ==
    /\ ~hasAtomic /\ ~TRY_DUPFD_CLOEXEC
    /\ DupReturnedOk /\ last.atomic = 1 /\ ReadsCloexec(last.fd)
    /\ \E t \in Threads :
          /\ t # last.t /\ pc[t] = "setfd" /\ natomic[t] = 1 /\ ttry[t]
          /\ tsrc[t] # last.src

\* C10: set_close_on_exec on one FileDesc changes the flag of that FileDesc's
\* descriptor alone (no other descriptor's flag, not the set of open
\* descriptors, not TRY_DUPFD_CLOEXEC), and a duplication that returns Ok
\* afterwards still yields a descriptor that reads close-on-exec = true.
C10_FlagIsPerDescriptor ==
    [][ /\ last'.op = "set_close_on_exec" =>
              /\ \A fd \in Fds \ {last'.fd} : fdflags'[fd] = fdflags[fd]
              /\ open' = open
              /\ TRY_DUPFD_CLOEXEC' = TRY_DUPFD_CLOEXEC
              /\ last'.res = "Ok" => fdflags'[last'.fd] = CloexecArg(last'.val)
        /\ (last'.op = "duplicate_raw_fd" /\ last'.res = "Ok") =>
              CloexecOf(fdflags'[last'.fd])
      ]_vars

\* C10 witness: the flag of one duplicate was set to false, and a duplication
\* made after that has returned a descriptor that reads true, while the first
\* duplicate and the source read false.
C10_Witness ==
    /\ DupReturnedOk /\ ReadsCloexec(last.fd)
    /\ ~ReadsCloexec(last.src) /\ last.src \in open
    /\ \E h \in Handles :
          /\ h # last.h /\ Held(h) /\ hfd[h] \in open \ InitOpen
          /\ ~ReadsCloexec(hfd[h])

\* C11: a set_close_on_exec(b) that returns Ok leaves the descriptor reading
\* close-on-exec = b, and a get_close_on_exec on the same FileDesc right after
\* it returns Ok(b), for both values of b and whatever the flag was before.
C11_SetThenGet ==
    [][ /\ (last'.op = "set_close_on_exec" /\ last'.res = "Ok") =>
              /\ last'.fd \in open'
              /\ CloexecOf(fdflags'[last'.fd]) = last'.val
        /\ (last.op = "set_close_on_exec" /\ last.res = "Ok"
               /\ last'.op = "get_close_on_exec" /\ last'.h = last.h) =>
              /\ last'.res = "Ok"
              /\ last'.val = last.val
      ]_vars

\* C11 witness: the only FileDesc there has been wraps descriptor 0, whose flag
\* was clear at the start, and get_close_on_exec has just returned Ok(true).
C11_Witness ==
    /\ last.op = "get_close_on_exec" /\ last.res = "Ok" /\ last.val
    /\ last.h = 1 /\ last.fd = 0 /\ hstate[2] = "none"

\* C12: a duplication whose source is not an open descriptor when its fcntl is
\* issued (never opened, or already closed) returns the error of the kernel,
\* EBADF, creates no FileDesc and leaves the descriptor table, the owners and the
\* close counts exactly as they were.
C12_InvalidSourceFails ==
    [][ \A t \in Threads :
          (pc[t] \in {"atomic", "plain"} /\ tsrc[t] \notin open
             /\ last'.op = "duplicate_raw_fd" /\ last'.t = t) =>
              /\ last'.res = "EBADF"
              /\ last'.h = NoHandle /\ last'.fd = NoFd
              /\ pc'[t] = "idle"
              /\ open' = open /\ fdflags' = fdflags
              /\ hstate' = hstate /\ hfd' = hfd /\ closes' = closes
      ]_vars

\* C12 witness: descriptor 0 was wrapped and closed by the drop of its FileDesc,
\* and a duplication of 0 has returned EBADF without creating a FileDesc.
C12_Witness ==
    /\ DupReturned /\ last.res = "EBADF" /\ last.h = NoHandle
    /\ last.src = 0 /\ 0 \notin open
    /\ hstate[1] = "dropped" /\ hstate[2] = "none"

\* C13: from_raw_fd(D) / new(D) creates a FileDesc whose fd is D and touches
\* nothing else (the descriptor table and its flags, the other FileDesc values);
\* as_raw_fd returns the FileDesc's fd, so D right after the wrap, and changes
\* nothing at all: the FileDesc stays the live owner.
C13_WrapThenQuery ==
    [][ /\ last'.op = "from_raw_fd" =>
              /\ open' = open /\ fdflags' = fdflags /\ closes' = closes
              /\ hstate[last'.h] = "none" /\ hstate'[last'.h] = "live"
              /\ hfd'[last'.h] = last'.fd
              /\ \A g \in Handles \ {last'.h} :
                    hstate'[g] = hstate[g] /\ hfd'[g] = hfd[g]
        /\ last'.op = "as_raw_fd" =>
              /\ last'.fd = hfd[last'.h]
              /\ open' = open /\ fdflags' = fdflags
              /\ hstate' = hstate /\ hfd' = hfd /\ closes' = closes
              /\ hstate'[last'.h] = "live"
        /\ (last.op = "from_raw_fd" /\ last'.op = "as_raw_fd" /\ last'.h = last.h) =>
              last'.fd = last.fd
      ]_vars

\* C13 witness: the only FileDesc there has been wraps descriptor 1 (a
\* duplicate would have got 2), as_raw_fd has just returned 1, and 1 is open
\* with its flag clear as at the start.
C13_Witness ==
    /\ last.op = "as_raw_fd" /\ last.h = 1 /\ last.fd = 1 /\ hstate[2] = "none"
    /\ hstate[1] = "live" /\ hfd[1] = 1 /\ 1 \in open /\ ~ReadsCloexec(1)

\* C14: on the fallback path F_DUPFD adds exactly the new descriptor to the
\* open ones, and when the F_SETFD that follows fails, duplicate_raw_fd returns
\* that error, creates no FileDesc for the caller and closes exactly the new
\* descriptor before it returns (one close, by the drop of the local FileDesc):
\* the two steps together leave the set of open descriptors as it was.
C14_FailedFlagSetClosesDuplicate ==
    [][ \A t \in Threads :
          /\ (pc[t] = "plain" /\ pc'[t] = "setfd") =>
                /\ hfd'[tnew'[t]] \notin open
                /\ open' = open \cup {hfd'[tnew'[t]]}
          /\ (pc[t] = "setfd" /\ last'.op = "duplicate_raw_fd" /\ last'.t = t
                 /\ last'.sys = -1) =>
                /\ last'.res = "EPERM"
                /\ last'.h = NoHandle /\ last'.fd = NoFd
                /\ pc'[t] = "idle"
                /\ hfd[tnew[t]] \in open
                /\ open' = open \ {hfd[tnew[t]]}
                /\ hstate'[tnew[t]] = "dropped"
                /\ closes'[tnew[t]] = 1
      ]_vars

\* C14 witness: the first duplication of the process went through F_DUPFD, its
\* F_SETFD was refused, it has returned the error, its FileDesc has been
\* dropped with one close, and the open descriptors are those of the start.
C14_Witness ==
    /\ DupReturned /\ last.res = "EPERM" /\ last.plain = 1 /\ last.atomic = 0
    /\ open = InitOpen
    /\ hstate[1] = "dropped" /\ closes[1] = 1 /\ hstate[2] = "none"

\* Thread t takes a step of duplicate_raw_fd from position p.
StepOf(t, p) == pc[t] = p /\ last'.op = "duplicate_raw_fd" /\ last'.t = t

\* C15: when the F_DUPFD_CLOEXEC of a call fails with EINVAL, the call stores
\* false into TRY_DUPFD_CLOEXEC, creates nothing, does not return and goes on to
\* F_DUPFD; if that and the F_SETFD after it succeed, the call returns Ok with
\* close-on-exec set.  No duplication ever returns EINVAL.
C15_NotSupportedFallsThrough ==
    [][ /\ last'.op = "duplicate_raw_fd" => last'.res # "EINVAL"
        /\ \A t \in Threads :
              /\ (StepOf(t, "atomic")
                     /\ fcntl_F_DUPFD_CLOEXEC(tsrc[t]).errno = "EINVAL") =>
                    /\ ~TRY_DUPFD_CLOEXEC'
                    /\ pc'[t] = "plain" /\ last'.res = "-"
                    /\ open' = open /\ fdflags' = fdflags /\ hstate' = hstate
              /\ (StepOf(t, "plain") /\ natomic[t] = 1 /\ last'.sys # -1) =>
                    /\ pc'[t] = "setfd" /\ last'.res = "-"
              /\ (StepOf(t, "setfd") /\ natomic[t] = 1 /\ last'.sys # -1) =>
                    /\ last'.res = "Ok" /\ last'.atomic = 1 /\ last'.plain = 1
                    /\ last'.fd \in open' /\ CloexecOf(fdflags'[last'.fd])
      ]_vars

\* C15 witness: a call whose atomic attempt failed with EINVAL has gone through
\* F_DUPFD and F_SETFD and returned Ok; the flag is false.
C15_Witness ==
    /\ DupReturnedOk /\ last.atomic = 1 /\ last.plain = 1
    /\ ~hasAtomic /\ ~TRY_DUPFD_CLOEXEC
    /\ ReadsCloexec(last.fd) /\ last.fd # last.src

\* C16: when the F_DUPFD_CLOEXEC of a call fails with an error other than
\* EINVAL, the call returns that error at once: it issues no F_DUPFD, leaves
\* TRY_DUPFD_CLOEXEC as it is, and creates no descriptor and no FileDesc.
C16_OtherErrorReturned ==
    [][ \A t \in Threads :
          (StepOf(t, "atomic")
             /\ fcntl_F_DUPFD_CLOEXEC(tsrc[t]).ret = -1
             /\ fcntl_F_DUPFD_CLOEXEC(tsrc[t]).errno # "EINVAL") =>
              /\ last'.res = fcntl_F_DUPFD_CLOEXEC(tsrc[t]).errno
              /\ last'.h = NoHandle /\ last'.fd = NoFd
              /\ pc'[t] = "idle"
              /\ last'.atomic = 1 /\ last'.plain = 0
              /\ issued' = issued \cup {"F_DUPFD_CLOEXEC"}
              /\ TRY_DUPFD_CLOEXEC' = TRY_DUPFD_CLOEXEC
              /\ open' = open /\ fdflags' = fdflags
              /\ hstate' = hstate /\ hfd' = hfd /\ closes' = closes
      ]_vars

\* C16 witness: the only duplication command the process has issued is an
\* F_DUPFD_CLOEXEC on a descriptor that is not open; the call has returned
\* EBADF, nothing was created and the flag is still true.
C16_Witness ==
    /\ DupReturned /\ last.res = "EBADF" /\ last.atomic = 1 /\ last.plain = 0
    /\ issued = {"F_DUPFD_CLOEXEC"} /\ TRY_DUPFD_CLOEXEC
    /\ open = InitOpen /\ \A h \in Handles : hstate[h] = "none"

\* ------------------------------------- duplicate_raw_fd as a function

\* What the caller sees of a call: the io::Result, and for Ok the descriptor of
\* the FileDesc and what its close-on-exec flag reads.
Result(res, fd, cloexec) == [res |-> res, fd |-> fd, cloexec |-> cloexec]

\* duplicate_raw_fd(src) run without interruption in the current state, with
\* `flag` as the value loaded from TRY_DUPFD_CLOEXEC; `denied` is whether the
\* kernel refuses an F_SETFD (the descriptor it is issued on is the one F_DUPFD
\* has just returned, so EBADF is not possible).
DuplicateResult(flag, src, denied) ==
    LET a == check_ret(fcntl_F_DUPFD_CLOEXEC(src))
        p == check_ret(fcntl_F_DUPFD(src))
        s == check_ret(IF denied THEN Fail("EPERM") ELSE Ret(0))
        Fallback ==
            IF ~p.ok THEN Result(p.err, NoFd, FALSE)
            ELSE IF ~s.ok THEN Result(s.err, NoFd, FALSE)
            ELSE Result("Ok", WrappedFd(src, p.val), CloexecOf(CloexecArg(TRUE)))
    IN  IF TryAtomic(flag)
        THEN IF IsNotSupported(a) THEN Fallback
             ELSE IF a.ok
             THEN Result("Ok", WrappedFd(src, a.val), CloexecOf(FD_CLOEXEC))
             ELSE Result(a.err, NoFd, FALSE)
        ELSE Fallback

\* What the caller sees of the call that returns in this step.
Returned ==
    Result(last'.res, last'.fd,
           last'.res = "Ok" /\ CloexecOf(fdflags'[last'.fd]))

\* The steps of the threads compute DuplicateResult: a call that returns from
\* its first fcntl returns it, a call whose F_DUPFD succeeds holds the
\* descriptor of it, and the F_SETFD step returns Ok for that descriptor or the
\* error of F_SETFD.
StepsComputeDuplicateResult ==
    \A t \in Threads :
        /\ (StepOf(t, "atomic") /\ last'.res # "-") =>
              \A d \in BOOLEAN : Returned = DuplicateResult(TRUE, tsrc[t], d)
        /\ (StepOf(t, "plain") /\ last'.res # "-") =>
              \A d \in BOOLEAN : Returned = DuplicateResult(FALSE, tsrc[t], d)
        /\ (StepOf(t, "plain") /\ last'.res = "-") =>
              Result("Ok", hfd'[tnew'[t]], TRUE) = DuplicateResult(FALSE, tsrc[t], FALSE)
        /\ StepOf(t, "setfd") =>
              \/ Returned = Result("Ok", hfd[tnew[t]], TRUE)
              \/ Returned = Result("EPERM", NoFd, FALSE)

\* C17 as claimed: in every state, for every source and every outcome of the
\* system calls, a call that loads true and a call that loads false return the
\* same thing.
C17_FlagNeverChangesResult ==
    \A src \in Fds, denied \in BOOLEAN :
        DuplicateResult(TRUE, src, denied) = DuplicateResult(FALSE, src, denied)

\* C17 amended: they return the same thing whenever F_SETFD is not refused; when
\* it is refused they differ in one case only: on a platform that has
\* F_DUPFD_CLOEXEC the call that loads true returns Ok (it issues no F_SETFD)
\* where the call that loads false returns the error of F_SETFD.
C17_FlagChangesResultOnlyOnSetfdFailure ==
    /\ [](\A src \in Fds :
            /\ DuplicateResult(TRUE, src, FALSE) = DuplicateResult(FALSE, src, FALSE)
            /\ DuplicateResult(TRUE, src, TRUE) # DuplicateResult(FALSE, src, TRUE) =>
                  /\ hasAtomic
                  /\ DuplicateResult(TRUE, src, TRUE).res = "Ok"
                  /\ DuplicateResult(FALSE, src, TRUE).res = "EPERM")
    /\ [][StepsComputeDuplicateResult]_vars

\* C17 witness: on a platform with F_DUPFD_CLOEXEC a call that loaded true has
\* returned Ok from the atomic attempt, and in the state it left a call on the
\* same source returns Ok with either value of the flag.
C17_Witness ==
    /\ hasAtomic /\ TRY_DUPFD_CLOEXEC
    /\ DupReturnedOk /\ last.atomic = 1 /\ last.plain = 0
    /\ DuplicateResult(TRUE, last.src, FALSE).res = "Ok"
    /\ DuplicateResult(FALSE, last.src, FALSE) = DuplicateResult(TRUE, last.src, FALSE)

\* C18: dropping a FileDesc whose descriptor is negative issues no close and
\* leaves the descriptor table as it was; a drop issues a close exactly when
\* the descriptor is >= 0.
C18_NegativeDropIssuesNoClose ==
    /\ [](\A h \in Handles : (hstate[h] = "dropped" /\ closes[h] = 0) => last.op # "drop" \/ last.h # h \/ last.fd < 0)
    /\ [][ \A h \in Handles :
              (last'.op = "drop" /\ last'.h = h) =>
                  /\ last'.fd = hfd[h]
                  /\ hstate'[h] = "dropped"
                  /\ hfd[h] >= 0 => closes'[h] = closes[h] + 1
                  /\ hfd[h] < 0 =>
                        /\ closes' = closes
                        /\ open' = open /\ fdflags' = fdflags
                        /\ last'.sys = 0
          ]_vars

\* C18 witness: a FileDesc made by from_raw_fd(-1) was dropped, with no close.
C18_Witness ==
    /\ last.op = "drop" /\ last.fd = NoFd /\ last.fd < 0
    /\ hstate[last.h] = "dropped" /\ closes[last.h] = 0

=============================================================================
